---------------------------- MODULE Spec2Model ----------------------------
(***************************************************************************)
(* IAQ Exceedance Predictor (src/app.py).                                  *)
(*                                                                         *)
(* The program is a Streamlit script: every interaction of the user with   *)
(* the page re-executes the script from its first line to its last, in a   *)
(* new namespace.  One execution ("run") is modelled statement by          *)
(* statement, pc naming the statement that executes next.                  *)
(*                                                                         *)
(* Conventions                                                             *)
(*  - the option labels "≤29", "≤25", "≤70" of the source are written      *)
(*    "<=29", "<=25", "<=70";                                              *)
(*  - Python lists are sequences, so the source's index k is k+1 here;     *)
(*  - a probability is an integer number of thousandths (345 is 0.345).    *)
(***************************************************************************)
EXTENDS Integers, Sequences, FiniteSets, TLC

VARIABLES
    ns,             \* the script's namespace of this run: name -> value
    pc,             \* the statement that executes next
    loads,          \* the calls of joblib.load of this run, in order
    page,           \* the results this run has rendered, in order
    error,          \* the uncaught exception that ended this run, or "None"
    session_state,  \* Streamlit's per-session store, which outlives a run
    runs            \* how many runs the session has started

vars == <<ns, pc, loads, page, error, session_state, runs>>

\* The runs of one session that are explored.
MaxRuns == 2

---------------------------------------------------------------------------
(* The form: the choices each st.selectbox offers (lines 20-35).           *)

OccupancyOptions == {"One resident", "More than one residents"}
ActivityOptions  == {"Sleeping", "Sitting", "Watching TV", "Working",
                     "Having Dinner", "Cleaning", "Dressing", "Cooking",
                     "Smoking"}
WindowOptions      == {"Closed", "Open"}
AcOptions          == {"Off", "On"}
AchOptions         == {"Meet Thai regulation", "Not meet Thai regulation"}
AirpurifierOptions == {"Off", "On"}
OutdoorTempOptions == {"<=29", ">29"}
OutdoorPmOptions   == {"<=25", ">25"}
OutdoorRhOptions   == {"<=70", ">70"}

\* Every FormState the form can deliver.
FormStates ==
    [occupancy_label : OccupancyOptions,
     activity        : ActivityOptions,
     window          : WindowOptions,
     ac              : AcOptions,
     ach             : AchOptions,
     airpurifier     : AirpurifierOptions,
     outdoor_temp    : OutdoorTempOptions,
     outdoor_pm      : OutdoorPmOptions,
     outdoor_rh      : OutdoorRhOptions]

\* What a selectbox returns before the user has touched it: its first option.
DefaultForm ==
    [occupancy_label |-> "One resident",
     activity        |-> "Sleeping",
     window          |-> "Closed",
     ac              |-> "Off",
     ach             |-> "Meet Thai regulation",
     airpurifier     |-> "Off",
     outdoor_temp    |-> "<=29",
     outdoor_pm      |-> "<=25",
     outdoor_rh      |-> "<=70"]

\* The two scenarios of the specification's section 8, and the FormState that
\* differs from the first in every field.
Scenario1 ==
    [DefaultForm EXCEPT !.ac = "On", !.outdoor_temp = ">29"]
Scenario2 ==
    [Scenario1 EXCEPT !.activity = "Smoking", !.airpurifier = "On"]
Opposite ==
    [occupancy_label |-> "More than one residents",
     activity        |-> "Cooking",
     window          |-> "Open",
     ac              |-> "Off",
     ach             |-> "Not meet Thai regulation",
     airpurifier     |-> "On",
     outdoor_temp    |-> "<=29",
     outdoor_pm      |-> ">25",
     outdoor_rh      |-> ">70"]
SampleForms == {Scenario1, Scenario2, Opposite}

---------------------------------------------------------------------------
(* Helper functions and feature vectors (lines 20-85).                     *)

\* occupancy_of with the occupancy encoded as an indicator
occupancy_of_binary(occupancy_label) ==
    IF occupancy_label = "One resident" THEN 1 ELSE 0

\* line 21
occupancy_of(occupancy_label) ==
    IF occupancy_label = "One resident" THEN 1 ELSE 2

\* lines 16-37: the names the form block binds, in a new namespace
bind_form(f, s) ==
    f @@ [occupancy |-> occupancy_of(f.occupancy_label), submitted |-> s]

\* lines 40-41
binary(value, true_value) == IF value = true_value THEN 1 ELSE 0

\* activity_pm25_map with Cleaning counted as a high-emission activity
activity_pm25_map_cleaning2 ==
    [a \in ActivityOptions |->
        IF a \in {"Cooking", "Smoking", "Cleaning"} THEN 2 ELSE 1]

\* activity_pm25_map with one key spelled differently from the selectbox
activity_pm25_map_typo ==
    [a \in (ActivityOptions \ {"Watching TV"}) \cup {"Watching Tv"} |->
        IF a \in {"Cooking", "Smoking"} THEN 2 ELSE 1]

\* lines 44-54
activity_pm25_map ==
    [a \in ActivityOptions |->
        IF a \in {"Cooking", "Smoking"} THEN 2 ELSE 1]

\* line 55, which binds activity_pm25 in the namespace n
bind_activity_pm25(n) ==
    n @@ [activity_pm25 |-> activity_pm25_map[n.activity]]

\* get_features_temp with the A/C indicator of get_features_rh
get_features_temp_acOn(n) ==
    << << binary(n.outdoor_temp, "<=29"),
          binary(n.window, "Open"),
          binary(n.ac, "On") >> >>

\* lines 58-63, over the namespace n
get_features_temp(n) ==
    << << binary(n.outdoor_temp, "<=29"),
          binary(n.window, "Open"),
          binary(n.ac, "Off") >> >>

\* get_features_rh reading the air purifier in place of the A/C
get_features_rh_purifier(n) ==
    << << binary(n.outdoor_rh, ">70"),
          binary(n.window, "Open"),
          binary(n.airpurifier, "On") >> >>

\* lines 65-70
get_features_rh(n) ==
    << << binary(n.outdoor_rh, ">70"),
          binary(n.window, "Open"),
          binary(n.ac, "On") >> >>

\* lines 72-77
get_features_co2(n) ==
    << << n.occupancy,
          binary(n.window, "Open"),
          binary(n.ach, "Meet Thai regulation") >> >>

\* lines 79-85
get_features_pm25(n) ==
    << << binary(n.outdoor_pm, ">25"),
          binary(n.window, "Open"),
          n.activity_pm25,
          binary(n.airpurifier, "On") >> >>

---------------------------------------------------------------------------
(* Model artifacts and the prediction runner (lines 88-102).               *)

\* What a classifier answers for the one row it is given: predict returns
\* one label per row, predict_proba one pair (class 0, class 1) per row.
Labels == {0, 1}
ProbaPairs == {<<1000, 0>>, <<655, 345>>, <<500, 500>>, <<0, 1000>>}
Classifiers ==
    [loadable : {TRUE},
     predict : {<<l>> : l \in Labels},
     predict_proba : {<<p>> : p \in ProbaPairs}]

\* What joblib.load finds under a path: a classifier, or nothing it can load
\* (the file is missing or corrupt).
Missing == [loadable |-> FALSE, predict |-> <<>>, predict_proba |-> <<>>]
Artifacts == Classifiers \cup {Missing}

\* Two classifiers whose label and probability disagree about the 0.5
\* threshold, and the artifact that cannot be loaded.
SampleArtifacts ==
    {[loadable |-> TRUE, predict |-> <<1>>, predict_proba |-> << <<655, 345>> >>],
     [loadable |-> TRUE, predict |-> <<0>>, predict_proba |-> << <<500, 500>> >>],
     Missing}

\* lines 90-92, given the model that line 89 loaded
predict(model, features) ==
    LET prediction  == model.predict[1]
        exceed_prob == model.predict_proba[1][2]
    IN  <<prediction, exceed_prob>>

\* line 97: f"{exceed_prob * 100:.1f}%", as <<integer part, first decimal>>
percent_of(exceed_prob) == <<exceed_prob \div 10, exceed_prob % 10>>

\* show_result deriving the state from the probability
show_result_threshold(name, prediction, exceed_prob) ==
    [name    |-> name,
     emoji   |-> IF exceed_prob >= 500 THEN "Exceeded" ELSE "Within Limit",
     color   |-> IF exceed_prob >= 500 THEN "red" ELSE "green",
     percent |-> percent_of(exceed_prob)]

\* lines 94-102: the markdown line show_result renders
show_result(name, prediction, exceed_prob) ==
    [name    |-> name,
     emoji   |-> IF prediction # 0 THEN "Exceeded" ELSE "Within Limit",
     color   |-> IF prediction # 0 THEN "red" ELSE "green",
     percent |-> percent_of(exceed_prob)]

---------------------------------------------------------------------------
(* One run of the script.                                                  *)

Init ==
    /\ ns = <<>>
    /\ pc = "idle"
    /\ loads = <<>>
    /\ page = <<>>
    /\ error = "None"
    /\ session_state = {}
    /\ runs = 0

\* Streamlit starts a run (the first one of a session, a rerun, or the one a
\* press of the submit button causes): the previous run's namespace and its
\* elements on the page are discarded.
NewRun ==
    /\ pc \in {"done", "crashed"}
    /\ ns' = <<>>
    /\ pc' = "idle"
    /\ loads' = <<>>
    /\ page' = <<>>
    /\ error' = "None"
    /\ UNCHANGED <<session_state, runs>>

\* lines 16-37, the first statements of a run: the form block binds the
\* form's names; the selectboxes return the selections f, the submit button
\* returns s.
FormBlock(f, s) ==
    /\ ns' = bind_form(f, s)
    /\ pc' = "line55"
    /\ runs' = runs + 1
    /\ UNCHANGED <<loads, page, error, session_state>>

\* line 55 with the looked-up severity kept in the session store and
\* reused by the runs that follow
BindActivityPm25_memo ==
    /\ pc = "line55"
    /\ LET v == IF session_state = {}
                THEN activity_pm25_map[ns.activity]
                ELSE CHOOSE x \in session_state : TRUE
       IN  /\ ns' = ns @@ [activity_pm25 |-> v]
           /\ session_state' = {v}
    /\ pc' = "line105"
    /\ UNCHANGED <<loads, page, error, runs>>

\* line 55: activity_pm25 = activity_pm25_map[activity]
BindActivityPm25 ==
    /\ pc = "line55"
    /\ IF ns.activity \in DOMAIN activity_pm25_map
       THEN /\ ns' = bind_activity_pm25(ns)
            /\ pc' = "line105"
            /\ UNCHANGED error
       ELSE /\ pc' = "crashed"
            /\ error' = "KeyError"
            /\ UNCHANGED ns
    /\ UNCHANGED <<loads, page, session_state, runs>>

\* line 105: if submitted
IfSubmitted ==
    /\ pc = "line105"
    /\ pc' = IF ns.submitted THEN "line111" ELSE "done"
    /\ UNCHANGED <<ns, loads, page, error, session_state, runs>>

\* One call  pred, prob = predict(model_path, features)  at statement `at`,
\* where joblib.load (line 89) finds `model` under model_path.  An artifact
\* that cannot be loaded raises, and nothing catches the exception.
PredictCall(at, next, model_path, features, pred, prob, model) ==
    /\ pc = at
    /\ loads' = Append(loads, [model_path |-> model_path,
                               features   |-> features,
                               model      |-> model])
    /\ IF model.loadable
       THEN /\ ns' = ns @@ (pred :> predict(model, features)[1])
                        @@ (prob :> predict(model, features)[2])
            /\ pc' = next
            /\ UNCHANGED error
       ELSE /\ pc' = "crashed"
            /\ error' = "LoadError"
            /\ UNCHANGED ns
    /\ UNCHANGED <<page, session_state, runs>>

\* line 111
PredictTemp(model) ==
    PredictCall("line111", "line112", "model_Temp.pkl",
                get_features_temp(ns), "temp_pred", "temp_prob", model)

\* line 112
PredictRH(model) ==
    PredictCall("line112", "line114", "model_RH.pkl",
                get_features_rh(ns), "rh_pred", "rh_prob", model)

\* line 114
PredictPM25(model) ==
    PredictCall("line114", "line115", "model_PM25.pkl",
                get_features_pm25(ns), "pm25_pred", "pm25_prob", model)

\* line 115
PredictCO2(model) ==
    PredictCall("line115", "line117", "model_CO2.pkl",
                get_features_co2(ns), "co2_pred", "co2_prob", model)

\* lines 117-120: the four calls of show_result, which nothing separates
ShowResults ==
    /\ pc = "line117"
    /\ page' = page \o
         << show_result("Temperature", ns.temp_pred, ns.temp_prob),
            show_result("Relative Humidity", ns.rh_pred, ns.rh_prob),
            show_result("PM2.5", ns.pm25_pred, ns.pm25_prob),
            show_result("CO2", ns.co2_pred, ns.co2_prob) >>
    /\ pc' = "done"
    /\ UNCHANGED <<ns, loads, error, session_state, runs>>

---------------------------------------------------------------------------
(* Spec: every FormState the form offers, submitted or not, over the       *)
(* sample artifacts.                                                       *)

\* The user presses the submit button with the selections f.
Submit ==
    /\ pc = "idle"
    /\ runs < MaxRuns
    /\ \E f \in FormStates : FormBlock(f, TRUE)

\* A run the submit button did not cause (the page is opened or reloaded).
Rerun ==
    /\ pc = "idle"
    /\ runs < MaxRuns
    /\ \E f \in FormStates : FormBlock(f, FALSE)

Next ==
    \/ NewRun
    \/ Submit
    \/ Rerun
    \/ BindActivityPm25
    \/ IfSubmitted
    \/ \E model \in SampleArtifacts : PredictTemp(model)
    \/ \E model \in SampleArtifacts : PredictRH(model)
    \/ \E model \in SampleArtifacts : PredictPM25(model)
    \/ \E model \in SampleArtifacts : PredictCO2(model)
    \/ ShowResults

Spec == Init /\ [][Next]_vars

(* SpecRunner: the sample FormStates over every artifact.                  *)

SubmitSample ==
    /\ pc = "idle"
    /\ runs < MaxRuns
    /\ \E f \in SampleForms : FormBlock(f, TRUE)

RerunSample ==
    /\ pc = "idle"
    /\ runs < MaxRuns
    /\ \E f \in SampleForms : FormBlock(f, FALSE)

NextRunner ==
    \/ NewRun
    \/ SubmitSample
    \/ RerunSample
    \/ BindActivityPm25
    \/ IfSubmitted
    \/ \E model \in Artifacts : PredictTemp(model)
    \/ \E model \in Artifacts : PredictRH(model)
    \/ \E model \in Artifacts : PredictPM25(model)
    \/ \E model \in Artifacts : PredictCO2(model)
    \/ ShowResults

SpecRunner == Init /\ [][NextRunner]_vars

---------------------------------------------------------------------------
(* Vocabulary of the properties.                                           *)

FormFields == DOMAIN DefaultForm

Bound(name) == name \in DOMAIN ns
InRun == pc # "idle"
Encoded == InRun /\ Bound("activity_pm25")

\* The FormState of the run in progress.
FormOf(n) == [k \in FormFields |-> n[k]]

Indicator(b) == IF b THEN 1 ELSE 0

\* The activity severity as the specification states it.
ActivitySeverity(a) ==
    CASE a \in {"Sleeping", "Sitting", "Watching TV", "Working",
                "Having Dinner", "Cleaning", "Dressing"} -> 1
      [] a \in {"Cooking", "Smoking"} -> 2

\* The four vectors as the specification states them, for the FormState f.
TempVector(f) ==
    << Indicator(f.outdoor_temp = "<=29"),
       Indicator(f.window = "Open"),
       Indicator(f.ac = "Off") >>
RhVector(f) ==
    << Indicator(f.outdoor_rh = ">70"),
       Indicator(f.window = "Open"),
       Indicator(f.ac = "On") >>
Co2Vector(f) ==
    << IF f.occupancy_label = "One resident" THEN 1 ELSE 2,
       Indicator(f.window = "Open"),
       Indicator(f.ach = "Meet Thai regulation") >>
Pm25Vector(f) ==
    << Indicator(f.outdoor_pm = ">25"),
       Indicator(f.window = "Open"),
       ActivitySeverity(f.activity),
       Indicator(f.airpurifier = "On") >>

\* The artifacts in the order the script asks for them, and the name each
\* result is displayed under.
PathOrder ==
    <<"model_Temp.pkl", "model_RH.pkl", "model_PM25.pkl", "model_CO2.pkl">>
Paths == {PathOrder[i] : i \in DOMAIN PathOrder}
TargetName ==
    [p \in Paths |->
        CASE p = "model_Temp.pkl" -> "Temperature"
          [] p = "model_RH.pkl"   -> "Relative Humidity"
          [] p = "model_PM25.pkl" -> "PM2.5"
          [] p = "model_CO2.pkl"  -> "CO2"]

\* The feature vectors this run has passed to the artifact under path p.
Passed(p) ==
    {loads[i].features : i \in {j \in DOMAIN loads : loads[j].model_path = p}}

\* The namespace the script builds for the FormState f in a session that has
\* run nothing before.
FreshNamespace(f, s) == bind_activity_pm25(bind_form(f, s))

\* The vector the script passes to the artifact under path p, for namespace n.
FeaturesFor(p, n) ==
    CASE p = "model_Temp.pkl" -> get_features_temp(n)
      [] p = "model_RH.pkl"   -> get_features_rh(n)
      [] p = "model_PM25.pkl" -> get_features_pm25(n)
      [] p = "model_CO2.pkl"  -> get_features_co2(n)

---------------------------------------------------------------------------
(* The properties.                                                         *)

\* C1: during a submission, a failure to load one target's artifact is
\* surfaced for that target only: all four predictions are still run, and
\* the result of every target whose artifact loaded is displayed.
C1_LoadFailureIsolated ==
    (pc \in {"done", "crashed"} /\ ns.submitted /\ error # "KeyError") =>
        /\ \A p \in Paths : \E i \in DOMAIN loads : loads[i].model_path = p
        /\ \A i \in DOMAIN loads :
             loads[i].model.loadable =>
                \E j \in DOMAIN page :
                    page[j].name = TargetName[loads[i].model_path]

\* C2: for every FormState of the form, get_features_temp returns the one
\* row [outdoorTemp is "<=29", window is Open, A/C is Off] and
\* get_features_rh the one row [outdoorRH is ">70", window is Open, A/C is
\* On], as indicators and in that order, whatever the other fields hold; and
\* these are the vectors passed to the two artifacts.
C2_TempRhVectors ==
    InRun =>
        /\ get_features_temp(ns) = << TempVector(FormOf(ns)) >>
        /\ get_features_rh(ns) = << RhVector(FormOf(ns)) >>
        /\ Passed("model_Temp.pkl") \subseteq {<< TempVector(FormOf(ns)) >>}
        /\ Passed("model_RH.pkl") \subseteq {<< RhVector(FormOf(ns)) >>}

\* C2 witness: the scenario of section 8 has passed [0,0,0] to the
\* temperature artifact and [0,0,1] to the humidity artifact.
C2_Witness ==
    /\ InRun
    /\ FormOf(ns) = Scenario1
    /\ Passed("model_Temp.pkl") = {<< <<0, 0, 0>> >>}
    /\ Passed("model_RH.pkl") = {<< <<0, 0, 1>> >>}

\* C3: for every FormState of the form, get_features_co2 returns the one row
\* [1 for one resident and 2 otherwise, window is Open, ACH meets the
\* regulation] and get_features_pm25 the one row [outdoorPM is ">25", window
\* is Open, activity severity, air purifier is On], in that order; and these
\* are the vectors passed to the two artifacts.
C3_Co2Pm25Vectors ==
    Encoded =>
        /\ get_features_co2(ns) = << Co2Vector(FormOf(ns)) >>
        /\ get_features_pm25(ns) = << Pm25Vector(FormOf(ns)) >>
        /\ Passed("model_CO2.pkl") \subseteq {<< Co2Vector(FormOf(ns)) >>}
        /\ Passed("model_PM25.pkl") \subseteq {<< Pm25Vector(FormOf(ns)) >>}

\* C3 witness: the scenario of section 8 has passed [0,0,1,0] to the PM2.5
\* artifact and [1,0,1] to the CO2 artifact.
C3_Witness ==
    /\ Encoded
    /\ FormOf(ns) = Scenario1
    /\ Passed("model_PM25.pkl") = {<< <<0, 0, 1, 0>> >>}
    /\ Passed("model_CO2.pkl") = {<< <<1, 0, 1>> >>}

\* C4: the activity severity the script binds, and the third element of the
\* vector passed to the PM2.5 artifact, is 2 for Cooking and Smoking and 1
\* for each of the seven other activities.
C4_ActivitySeverity ==
    Encoded =>
        /\ ns.activity \in {"Cooking", "Smoking"} => ns.activity_pm25 = 2
        /\ ns.activity \in {"Sleeping", "Sitting", "Watching TV", "Working",
                            "Having Dinner", "Cleaning", "Dressing"}
              => ns.activity_pm25 = 1
        /\ \A v \in Passed("model_PM25.pkl") : v[1][3] = ns.activity_pm25

\* C4 witness: a submission with Smoking has passed severity 2 to the PM2.5
\* artifact.
C4_Witness ==
    /\ Encoded
    /\ ns.activity = "Smoking"
    /\ \E v \in Passed("model_PM25.pkl") : v[1][3] = 2

\* C5: once a run has bound its names (line 105), a FormState that differs
\* from the one of this run in activity and/or air purifier only gets the
\* same temperature, humidity and CO2 vectors and the same first two PM2.5
\* elements; from Sleeping and Off to Smoking and On, the third PM2.5 element
\* becomes 2 and the fourth 1.
C5_ActivityPurifierFrame ==
    pc = "line105" =>
        \A a \in ActivityOptions, q \in AirpurifierOptions :
            LET g == [FormOf(ns) EXCEPT !.activity = a, !.airpurifier = q]
                n == FreshNamespace(g, ns.submitted)
            IN  /\ get_features_temp(n) = get_features_temp(ns)
                /\ get_features_rh(n) = get_features_rh(ns)
                /\ get_features_co2(n) = get_features_co2(ns)
                /\ get_features_pm25(n)[1][1] = get_features_pm25(ns)[1][1]
                /\ get_features_pm25(n)[1][2] = get_features_pm25(ns)[1][2]
                /\ (/\ ns.activity = "Sleeping"
                    /\ ns.airpurifier = "Off"
                    /\ a = "Smoking"
                    /\ q = "On")
                   => /\ get_features_pm25(ns)[1][3] = 1
                      /\ get_features_pm25(ns)[1][4] = 0
                      /\ get_features_pm25(n)[1][3] = 2
                      /\ get_features_pm25(n)[1][4] = 1

\* C5 witness: the second scenario of section 8 has been submitted after a
\* run of the first, and has passed [0,0,2,1] to the PM2.5 artifact.
C5_Witness ==
    /\ Encoded
    /\ runs = 2
    /\ FormOf(ns) = Scenario2
    /\ Passed("model_PM25.pkl") = {<< <<0, 0, 2, 1>> >>}
    /\ Passed("model_CO2.pkl") = {<< <<1, 0, 1>> >>}

\* C6: on every run, submitted or not, and for every FormState of the form,
\* encoding does not fail: the severity lookup of line 55 raises nothing and
\* binds a severity, and the vectors have 3, 3, 3 and 4 elements.
C6_EncodingTotal ==
    /\ error # "KeyError"
    /\ (InRun /\ pc # "line55") =>
          /\ Bound("activity_pm25")
          /\ Len(get_features_temp(ns)[1]) = 3
          /\ Len(get_features_rh(ns)[1]) = 3
          /\ Len(get_features_co2(ns)[1]) = 3
          /\ Len(get_features_pm25(ns)[1]) = 4
          /\ \A p \in Paths : \A v \in Passed(p) :
                Len(v[1]) = IF p = "model_PM25.pkl" THEN 4 ELSE 3

\* C6 witness: a run that was not submitted has ended without an exception,
\* the severity of Watching TV bound.
C6_Witness ==
    /\ pc = "done"
    /\ ~ns.submitted
    /\ ns.activity = "Watching TV"
    /\ Bound("activity_pm25")
    /\ error = "None"

\* C7: in every run of a session, whatever ran before it, each vector passed
\* to an artifact is the one the script builds for this run's FormState in
\* a session that has run nothing before; and no run leaves anything in the
\* session store for a later run to read.
C7_VectorsDependOnFormOnly ==
    /\ session_state = {}
    /\ InRun =>
          \A i \in DOMAIN loads :
              loads[i].features =
                  FeaturesFor(loads[i].model_path,
                              FreshNamespace(FormOf(ns), ns.submitted))

\* C7 witness: the second run of a session, a submission with a high-emission
\* activity, has passed its four vectors.
C7_Witness ==
    /\ runs = 2
    /\ pc = "done"
    /\ ns.submitted
    /\ ns.activity = "Cooking"
    /\ Len(loads) = 4

\* C8: every submission calls joblib.load once per target (four calls, in
\* the order Temperature, Relative Humidity, PM2.5, CO2), each call reading
\* its own artifact (nothing is kept in the session for reuse) and applying
\* it to the vector of that target; a run that was not submitted loads
\* nothing.
C8_OneFreshLoadPerTarget ==
    /\ session_state = {}
    /\ \A i \in DOMAIN loads :
          /\ i <= Len(PathOrder)
          /\ loads[i].model_path = PathOrder[i]
          /\ loads[i].features = FeaturesFor(PathOrder[i], ns)
    /\ (InRun /\ ~ns.submitted) => loads = <<>>
    /\ (pc \in {"done", "crashed"} /\ ns.submitted) =>
          [i \in DOMAIN loads |-> loads[i].model_path] = PathOrder

\* C9: each displayed result shows Exceeded exactly when its artifact's
\* predicted label is the exceed class, whatever the probability, and shows
\* the probability the artifact gives to class 1, as a percentage with one
\* decimal.
C9_LabelIsAuthoritative ==
    \A i \in DOMAIN page :
        LET m == loads[i].model
        IN  /\ page[i].name = TargetName[loads[i].model_path]
            /\ page[i].emoji =
                  IF m.predict[1] = 1 THEN "Exceeded" ELSE "Within Limit"
            /\ page[i].percent =
                  << m.predict_proba[1][2] \div 10,
                     m.predict_proba[1][2] % 10 >>

\* C9 witness: a label of exceed with probability 0.345 is displayed as
\* Exceeded, and a label of within-limit with probability 0.5 as Within
\* Limit.
C9_Witness ==
    /\ pc = "done"
    /\ Len(page) = 4
    /\ loads[1].model.predict = <<1>>
    /\ loads[1].model.predict_proba = << <<655, 345>> >>
    /\ page[1].emoji = "Exceeded"
    /\ page[1].percent = <<34, 5>>
    /\ loads[2].model.predict = <<0>>
    /\ loads[2].model.predict_proba = << <<500, 500>> >>
    /\ page[2].emoji = "Within Limit"
    /\ page[2].percent = <<50, 0>>

=============================================================================
